---- MODULE Spec2Model ----
(***************************************************************************)
(* Model of transcriber.py: the YouTube -> MP3 -> Whisper -> transcript    *)
(* pipeline.  Strings are sequences of characters; a character is a        *)
(* one-character string, or a bracketed name for a character that has no   *)
(* TLA+ escape.                                                            *)
(***************************************************************************)
EXTENDS Integers, Sequences, FiniteSets, TLC

(***************************************************************************)
(* Characters and the character classes the code tests.                    *)
(***************************************************************************)
VT == "<VT>"        \* U+000B, vertical tab
FS == "<FS>"        \* U+001C, file separator
NUL == "<NUL>"      \* U+0000
BACKSLASH == "\\"
BACKTICK == "<backtick>"   \* U+0060

Digits == {"0", "1", "2", "3", "4", "5", "6", "7", "8", "9"}

Letters ==
    {"a", "b", "c", "d", "e", "f", "g", "h", "i", "j", "k", "l", "m",
     "n", "o", "p", "q", "r", "s", "t", "u", "v", "w", "x", "y", "z",
     "A", "B", "C", "D", "E", "F", "G", "H", "I", "J", "K", "L", "M",
     "N", "O", "P", "Q", "R", "S", "T", "U", "V", "W", "X", "Y", "Z"}

Punctuation ==
    {"!", "\"", "#", "$", "%", "&", "'", "(", ")", "*", "+", ",", "-", ".",
     "/", ":", ";", "<", "=", ">", "?", "@", "[", "\\", "]", "^", "_", BACKTICK,
     "{", "|", "}", "~"}

\* string.whitespace
AsciiWhitespace == {" ", "\t", "\n", "\r", VT, "\f"}

\* string.printable = digits + ascii_letters + punctuation + whitespace
Printable == Digits \cup Letters \cup Punctuation \cup AsciiWhitespace

\* the characters str.strip() removes: str.isspace()
StripChars == AsciiWhitespace \cup {FS}

\* the class [A-Za-z0-9_-] of both regular expressions
IdAlphabet == Letters \cup Digits \cup {"_", "-"}

\* the {11} of both regular expressions
IdLen == 11

\* no match object: the group of a match is never empty
NoMatch == <<>>

(***************************************************************************)
(* normalize_youtube_input                                                 *)
(***************************************************************************)
RECURSIVE LStrip(_)
LStrip(s) ==
    IF s # <<>> /\ Head(s) \in StripChars THEN LStrip(Tail(s)) ELSE s

RECURSIVE RStrip(_)
RStrip(s) ==
    IF s # <<>> /\ s[Len(s)] \in StripChars
    THEN RStrip(SubSeq(s, 1, Len(s) - 1))
    ELSE s

\* str.strip()
Strip(s) == RStrip(LStrip(s))

IsPrintable(c) == c \in Printable

\* "".join(c for c in s if c in string.printable)
KeepPrintable(s) == SelectSeq(s, IsPrintable)

NotBackslash(c) == c # BACKSLASH

\* s.replace("\\", "")
RemoveBackslashes(s) == SelectSeq(s, NotBackslash)

\* the pattern v=([A-Za-z0-9_-]{11}) matches s at position p
MatchesAt(s, p) ==
    /\ p + 1 + IdLen <= Len(s)
    /\ s[p] = "v"
    /\ s[p + 1] = "="
    /\ \A k \in 2 .. (IdLen + 1) : s[p + k] \in IdAlphabet

\* re.search scans the start positions from left to right
RECURSIVE SearchFrom(_, _)
SearchFrom(s, p) ==
    IF p > Len(s) THEN NoMatch
    ELSE IF MatchesAt(s, p) THEN SubSeq(s, p + 2, p + 1 + IdLen)
    ELSE SearchFrom(s, p + 1)

\* a search that keeps the last match instead of the first
RECURSIVE SearchBack(_, _)
SearchBack(s, p) ==
    IF p < 1 THEN NoMatch
    ELSE IF MatchesAt(s, p) THEN SubSeq(s, p + 2, p + 1 + IdLen)
    ELSE SearchBack(s, p - 1)

re_search_last(s) == SearchBack(s, Len(s))

\* re.search(r"v=([A-Za-z0-9_-]{11})", s), group 1 or no match
re_search(s) == SearchFrom(s, 1)

\* re.fullmatch(r"[A-Za-z0-9_-]{11}", s)
re_fullmatch(s) == Len(s) = IdLen /\ \A k \in 1 .. Len(s) : s[k] \in IdAlphabet

startswith(s, prefix) ==
    Len(s) >= Len(prefix) /\ SubSeq(s, 1, Len(prefix)) = prefix

SiteBase ==
    <<"h", "t", "t", "p", "s", ":", "/", "/", "w", "w", "w", ".", "y", "o",
      "u", "t", "u", "b", "e", ".", "c", "o", "m", "/">>

WatchPrefix == <<"w", "a", "t", "c", "h", "?", "v", "=">>

\* f"https://www.youtube.com/watch?v={video_id}"
CanonicalUrl(video_id) == SiteBase \o WatchPrefix \o video_id

\* the cleaning without its first statement, s.strip()
Clean_NoStrip(s) == RemoveBackslashes(KeepPrintable(s))

\* the three cleaning statements that open the function
Clean(s) == RemoveBackslashes(KeepPrintable(Strip(s)))

normalize_youtube_input(s0) ==
    LET s == Clean(s0)
        video_id == re_search(s)
    IN  IF video_id # NoMatch THEN CanonicalUrl(video_id)
        ELSE IF re_fullmatch(s) THEN CanonicalUrl(s)
        ELSE IF startswith(s, WatchPrefix) THEN SiteBase \o s
        ELSE s

(***************************************************************************)
(* Bounds of the model.                                                    *)
(***************************************************************************)
\* full five-minute windows in the longest audio
MaxFullWindows == 2
\* modification times a file in the output directory can carry
MaxMtime == 2
\* pieces an input string of the normaliser is assembled from
MaxPieces == 4

(***************************************************************************)
(* The transcription stage's pure parts.                                   *)
(***************************************************************************)
\* chunk_length_ms = 5 * 60 * 1000
chunk_length_ms == 5 * 60 * 1000

Min(a, b) == IF a < b THEN a ELSE b

\* a slice whose ends are not clamped to the length
AudioSlice_NoClamp(len, start, end) == [from |-> start, to |-> end]

\* audio[start:end] of a segment of length len: both ends clamp to the length
AudioSlice(len, start, end) ==
    [from |-> Min(start, len), to |-> Min(end, len)]

\* range(0, len(audio), chunk_length_ms) still has an element of index i
RangeHas(len, i) == i * chunk_length_ms < len

\* chunk = audio[start:start + chunk_length_ms], start the i-th of the range
ChunkOf(len, i) ==
    AudioSlice(len, i * chunk_length_ms, i * chunk_length_ms + chunk_length_ms)

\* f"chunk_{i:03d}.mp3", without the extension
ChunkName(i) ==
    "chunk_" \o (IF i < 10 THEN "00" ELSE IF i < 100 THEN "0" ELSE "")
             \o ToString(i)

\* "\n".join(parts)
RECURSIVE Join(_)
Join(parts) ==
    IF parts = <<>> THEN <<>>
    ELSE IF Len(parts) = 1 THEN parts[1]
    ELSE parts[1] \o <<"\n">> \o Join(Tail(parts))

\* full_text.insert(0, ...) in place of append
AppendFragment_Prepend(full_text_, raw) == <<Strip(raw)>> \o full_text_

\* full_text.append(result.text.strip())
AppendFragment(full_text_, raw) == Append(full_text_, Strip(raw))

(***************************************************************************)
(* The process: environment, command line, file system, program counter.   *)
(***************************************************************************)
VARIABLES
    pc,           \* where the process is
    environ,      \* os.environ["OPENAI_API_KEY"], Unset when not there
    argUrl,       \* args.url
    outDir,       \* args.out_dir
    dirs,         \* the directories that exist
    files,        \* the audio files that exist: [dir, name, mtime, dur]
    transcripts,  \* the files of transcripts/: [name, text]
    returncode,   \* exit status of the downloader, -1 before it ran
    url,          \* main's url
    mp3_path,     \* main's mp3_path
    audio,        \* len(audio) in transcribe, -1 before the decode
    i,            \* the loop index of transcribe
    chunks,       \* the chunk objects the loop has made, in order
    responses,    \* the result.text values the service has returned, in order
    full_text,    \* transcribe's full_text
    text,         \* main's text
    error,        \* the exception in flight or that ended the process
    log           \* the external activity of the run, in order

vars ==
    <<pc, environ, argUrl, outDir, dirs, files, transcripts, returncode, url,
      mp3_path, audio, i, chunks, responses, full_text, text, error, log>>

Unset == "<unset>"
NoError == "<none>"
NoPath == [dir |-> "", name |-> ""]
NoText == [bound |-> FALSE, value |-> <<>>]

TranscriptsDir == "transcripts"     \* Path("transcripts")
ChunksDir == "audio_chunks"         \* Path("audio_chunks")
DefaultOutDir == "downloads"        \* default of --out-dir

OutDirs == {DefaultOutDir, ChunksDir, "music"}
Titles == {"a", "b"}
Remainders == {0, 1, 120000}
Durations ==
    {k * chunk_length_ms + r : k \in 0 .. MaxFullWindows, r \in Remainders}
Mtimes == 1 .. MaxMtime

\* what the transcription service can answer
RawTexts == { <<" ", "h", "i">>, <<"y", "o", "\n">>, <<"\t">> }

\* command lines of the whole-pipeline runs
ScenarioUrl ==
    <<" ", " ", "v", "=", "\\", "d", "Q", "w", "4", "w", "9", "W", "g", "X",
      "c", "Q", "\\", "&", "t", "=", "5", "s", " ", " ">>
ArgUrls == { ScenarioUrl, <<"n", "o", "p", "e">> }

Event(e, k) == [ev |-> e, k |-> k]
Logged(e) == \E n \in 1 .. Len(log) : log[n].ev = e

\* a check that only catches the empty value
CredentialMissing_OnlyEmpty(v) == v = ""

\* not os.getenv("OPENAI_API_KEY")
CredentialMissing(v) == v \in {Unset, ""}

\* load_dotenv(): a key of the .env file is set unless the environment has it
load_dotenv(env, dotenv) == IF env = Unset THEN dotenv ELSE env

\* path.mkdir(parents=True, exist_ok=True)
mkdir(ds, d) == ds \cup {d}

\* out_dir.glob("*.mp3")
glob_mp3(fs, d) == {f \in fs : f.dir = d}

\* the head of the list sorted without reverse=True
Oldest(mp3s) == {f \in mp3s : \A g \in mp3s : g.mtime >= f.mtime}

\* sorted(..., key=st_mtime, reverse=True)[0]: the candidates for the head
Newest(mp3s) == {f \in mp3s : \A g \in mp3s : g.mtime <= f.mtime}

\* writing a file replaces the file of that path
WriteFile(fs, f) ==
    {g \in fs : ~(g.dir = f.dir /\ g.name = f.name)} \cup {f}

\* shutil.rmtree(d, ignore_errors=True): the files below d
rmtree_files(fs, d) == {f \in fs : f.dir # d}

\* shutil.rmtree(d, ignore_errors=True): the directory itself
rmtree_dirs(ds, d) == ds \ {d}

\* an exception handler that goes on with the loop
OnChunkError_Continue == "loop"

\* an exception in the try block runs the finally block next
OnChunkError == "finally"

\* a finally block that swallows the exception
AfterFinally_Swallow(err) == "return"

\* the end of the finally block: re-raise, or go on to the return statement
AfterFinally(err) == IF err # NoError THEN "fatal" ELSE "return"

Init ==
    /\ pc = "import"
    /\ environ \in {Unset, "", "sk-key"}
    /\ argUrl \in ArgUrls
    /\ outDir \in OutDirs
    /\ \E leftover \in SUBSET {ChunksDir}, old \in {0} \cup Mtimes :
          /\ files = IF old = 0 THEN {}
                     ELSE {[dir |-> outDir, name |-> "a", mtime |-> old,
                            dur |-> 1]}
          /\ dirs = leftover \cup (IF old = 0 THEN {} ELSE {outDir})
    /\ transcripts = {}
    /\ returncode = -1
    /\ url = <<>>
    /\ mp3_path = NoPath
    /\ audio = -1
    /\ i = 0
    /\ chunks = <<>>
    /\ responses = <<>>
    /\ full_text = <<>>
    /\ text = NoText
    /\ error = NoError
    /\ log = <<>>

\* lines 31-36: load_dotenv(), the credential check, client = OpenAI()
Import ==
    /\ pc = "import"
    /\ \E dotenv \in {Unset, "sk-file"} :
          /\ environ' = load_dotenv(environ, dotenv)
          /\ IF CredentialMissing(environ')
             THEN /\ error' = "RuntimeError: OPENAI_API_KEY not set"
                  /\ pc' = "fatal"
                  /\ log' = log
             ELSE /\ error' = error
                  /\ pc' = "main"
                  /\ log' = Append(log, Event("client", 0))
    /\ UNCHANGED <<argUrl, outDir, dirs, files, transcripts, returncode, url,
                   mp3_path, audio, i, chunks, responses, full_text, text>>

\* main, lines 178-187: parse the arguments, transcripts_dir.mkdir
MainSetup ==
    /\ pc = "main"
    /\ dirs' = mkdir(dirs, TranscriptsDir)
    /\ log' = Append(log, Event("mkdir_transcripts", 0))
    /\ pc' = "normalize"
    /\ UNCHANGED <<environ, argUrl, outDir, files, transcripts, returncode,
                   url, mp3_path, audio, i, chunks, responses, full_text, text,
                   error>>

\* main, line 189
Normalize ==
    /\ pc = "normalize"
    /\ url' = normalize_youtube_input(argUrl)
    /\ log' = Append(log, Event("normalize", 0))
    /\ pc' = "download"
    /\ UNCHANGED <<environ, argUrl, outDir, dirs, files, transcripts,
                   returncode, mp3_path, audio, i, chunks, responses,
                   full_text, text, error>>

\* download_audio, lines 102-121, called on line 190
DownloadAudio ==
    /\ pc = "download"
    /\ dirs' = mkdir(dirs, outDir)
    /\ \E code \in {0, 1}, made \in BOOLEAN, t \in Titles, m \in Mtimes,
          d \in Durations :
          LET produced == [dir |-> outDir, name |-> t, mtime |-> m, dur |-> d]
              after == IF made THEN WriteFile(files, produced) ELSE files
              mp3s == glob_mp3(after, outDir)
          IN  /\ returncode' = code
              /\ files' = after
              /\ IF code # 0
                 THEN /\ error' = "CalledProcessError"
                      /\ pc' = "fatal"
                      /\ mp3_path' = mp3_path
                      /\ log' = log \o <<Event("mkdir_out", 0),
                                         Event("downloader", code)>>
                 ELSE IF mp3s = {}
                 THEN /\ error' = "RuntimeError: No MP3 produced."
                      /\ pc' = "fatal"
                      /\ mp3_path' = mp3_path
                      /\ log' = log \o <<Event("mkdir_out", 0),
                                         Event("downloader", code),
                                         Event("scan", 0)>>
                 ELSE /\ error' = error
                      /\ pc' = "transcribe"
                      /\ \E f \in Newest(mp3s) :
                            mp3_path' = [dir |-> f.dir, name |-> f.name]
                      /\ log' = log \o <<Event("mkdir_out", 0),
                                         Event("downloader", code),
                                         Event("scan", 0)>>
    /\ UNCHANGED <<environ, argUrl, outDir, transcripts, url, audio, i,
                   chunks, responses, full_text, text>>

\* transcribe, lines 143-147: mkdir, decode, the locals; called on line 192
TranscribeBegin ==
    /\ pc = "transcribe"
    /\ dirs' = mkdir(dirs, ChunksDir)
    /\ \E decoded \in BOOLEAN :
          LET f == CHOOSE g \in files :
                       g.dir = mp3_path.dir /\ g.name = mp3_path.name
          IN  IF decoded
              THEN /\ audio' = f.dur
                   /\ error' = error
                   /\ pc' = "loop"
              ELSE /\ audio' = audio
                   /\ error' = "CouldntDecodeError"
                   /\ pc' = "fatal"
    /\ i' = 0
    /\ full_text' = <<>>
    /\ log' = log \o <<Event("mkdir_chunks", 0), Event("decode", 0)>>
    /\ UNCHANGED <<environ, argUrl, outDir, files, transcripts, returncode,
                   url, mp3_path, chunks, responses, text>>

\* transcribe, lines 150-153: the next element of the range, slice, export
LoopExport ==
    /\ pc = "loop"
    /\ IF RangeHas(audio, i)
       THEN LET chunk == ChunkOf(audio, i)
            IN  /\ chunks' = Append(chunks, chunk)
                /\ \E exported \in BOOLEAN :
                      IF exported
                      THEN /\ files' = WriteFile(files,
                                  [dir |-> ChunksDir, name |-> ChunkName(i),
                                   mtime |-> MaxMtime + 1,
                                   dur |-> chunk.to - chunk.from])
                           /\ error' = error
                           /\ pc' = "submit"
                           /\ log' = Append(log, Event("export", i))
                      ELSE /\ files' = files
                           /\ error' = "ExportError"
                           /\ pc' = OnChunkError
                           /\ log' = Append(log, Event("export_failed", i))
       ELSE /\ pc' = "finally"
            /\ UNCHANGED <<chunks, files, error, log>>
    /\ UNCHANGED <<environ, argUrl, outDir, dirs, transcripts, returncode,
                   url, mp3_path, audio, i, responses, full_text, text>>

\* transcribe, lines 155-161: open, transcriptions.create, append
Submit ==
    /\ pc = "submit"
    /\ \/ \E raw \in RawTexts :
             /\ responses' = Append(responses, raw)
             /\ full_text' = AppendFragment(full_text, raw)
             /\ i' = i + 1
             /\ pc' = "loop"
             /\ error' = error
             /\ log' = Append(log, Event("submit", i))
       \/ /\ error' = "APIError"
          /\ pc' = OnChunkError
          /\ log' = Append(log, Event("submit_failed", i))
          /\ UNCHANGED <<responses, full_text, i>>
    /\ UNCHANGED <<environ, argUrl, outDir, dirs, files, transcripts,
                   returncode, url, mp3_path, audio, chunks, text>>

\* transcribe, lines 163-165: the finally block
Finally ==
    /\ pc = "finally"
    /\ files' = rmtree_files(files, ChunksDir)
    /\ dirs' = rmtree_dirs(dirs, ChunksDir)
    /\ log' = Append(log, Event("rmtree", 0))
    /\ pc' = AfterFinally(error)
    /\ UNCHANGED <<environ, argUrl, outDir, transcripts, returncode, url,
                   mp3_path, audio, i, chunks, responses, full_text, text,
                   error>>

\* transcribe, line 167, and the assignment of line 192
Return ==
    /\ pc = "return"
    /\ text' = [bound |-> TRUE, value |-> Join(full_text)]
    /\ pc' = "write"
    /\ UNCHANGED <<environ, argUrl, outDir, dirs, files, transcripts,
                   returncode, url, mp3_path, audio, i, chunks, responses,
                   full_text, error, log>>

\* main, lines 194-197: write the transcript, print its path
WriteTranscript ==
    /\ pc = "write"
    /\ transcripts' =
          {t \in transcripts : t.name # mp3_path.name}
              \cup {[name |-> mp3_path.name, text |-> text.value]}
    /\ log' = Append(log, Event("write_transcript", 0))
    /\ pc' = "done"
    /\ UNCHANGED <<environ, argUrl, outDir, dirs, files, returncode, url,
                   mp3_path, audio, i, chunks, responses, full_text, text,
                   error>>

Next ==
    \/ Import
    \/ MainSetup
    \/ Normalize
    \/ DownloadAudio
    \/ TranscribeBegin
    \/ LoopExport
    \/ Submit
    \/ Finally
    \/ Return
    \/ WriteTranscript

Spec == Init /\ [][Next]_vars

(***************************************************************************)
(* The normaliser on its own: the process stands before line 189 with an   *)
(* argument assembled from at most MaxPieces pieces.                       *)
(***************************************************************************)
Pieces ==
    { <<"v", "=">>,
      <<"d", "Q", "w", "4", "w">>,
      <<"9", "W", "g", "X", "c", "Q">>,
      <<"v", "=", "A", "_", "b", "-", "c", "0", "d", "1", "e", "2", "f">>,
      <<"w", "a", "t", "c", "h", "?">>,
      <<BACKSLASH>>,
      <<" ">>,
      <<VT>>,
      <<NUL>> }

RECURSIVE Flatten(_)
Flatten(ps) == IF ps = <<>> THEN <<>> ELSE Head(ps) \o Flatten(Tail(ps))

Inputs ==
    {Flatten(ps) : ps \in UNION {[1 .. n -> Pieces] : n \in 0 .. MaxPieces}}
        \cup ArgUrls

InitNormalize ==
    /\ pc = "normalize"
    /\ environ = "sk-key"
    /\ argUrl \in Inputs
    /\ outDir = DefaultOutDir
    /\ dirs = {TranscriptsDir}
    /\ files = {}
    /\ transcripts = {}
    /\ returncode = -1
    /\ url = <<>>
    /\ mp3_path = NoPath
    /\ audio = -1
    /\ i = 0
    /\ chunks = <<>>
    /\ responses = <<>>
    /\ full_text = <<>>
    /\ text = NoText
    /\ error = NoError
    /\ log = <<Event("client", 0), Event("mkdir_transcripts", 0)>>

NextNormalize == Normalize

SpecNormalize == InitNormalize /\ [][NextNormalize]_vars

(***************************************************************************)
(* Vocabulary of the properties of the normaliser.                         *)
(***************************************************************************)
Normalized == pc = "download"

\* s holds "v=" and then IdLen characters of the id alphabet from position p
HasIdAt(s, p) ==
    /\ p >= 1
    /\ p + IdLen + 1 <= Len(s)
    /\ SubSeq(s, p, p + 1) = <<"v", "=">>
    /\ {s[k] : k \in (p + 2) .. (p + IdLen + 1)} \subseteq IdAlphabet

IdAt(s, p) == SubSeq(s, p + 2, p + IdLen + 1)

IsKept(c) == c \in Printable /\ c # BACKSLASH

\* s without its non-printable characters and its backslashes
Kept(s) == SelectSeq(s, IsKept)

\* s without its leading and trailing white space
Trimmed(s) ==
    LET solid == {k \in 1 .. Len(s) : s[k] \notin StripChars}
    IN  IF solid = {} THEN <<>>
        ELSE SubSeq(s, CHOOSE k \in solid : \A j \in solid : k <= j,
                       CHOOSE k \in solid : \A j \in solid : k >= j)

IsCanonical(u) ==
    /\ Len(u) = Len(SiteBase) + Len(WatchPrefix) + IdLen
    /\ SubSeq(u, 1, Len(SiteBase) + Len(WatchPrefix)) = SiteBase \o WatchPrefix
    /\ \A k \in (Len(u) - IdLen + 1) .. Len(u) : u[k] \in IdAlphabet

C7_AsStated ==
    Normalized => (error = NoError /\ (IsCanonical(url) \/ url = argUrl))

\* C7 amended: nothing is raised, and the result is a canonical URL, or the
\* site's base followed by the cleaned input when that starts with watch?v=,
\* or the cleaned input; cleaned means trimmed, then without non-printable
\* characters and backslashes.
C7_CanonicalOrCleaned ==
    Normalized =>
        LET c == Kept(Trimmed(argUrl))
        IN  /\ error = NoError
            /\ \/ IsCanonical(url)
               \/ /\ Len(c) >= Len(WatchPrefix)
                  /\ SubSeq(c, 1, Len(WatchPrefix)) = WatchPrefix
                  /\ url = SiteBase \o c
               \/ url = c

\* an input of the watch?v= branch: the result is neither canonical nor the
\* input
C7_Witness ==
    /\ Normalized
    /\ ~IsCanonical(url)
    /\ url # argUrl
    /\ url = SiteBase \o Kept(Trimmed(argUrl))

(***************************************************************************)
(* Vocabulary of the properties of the pipeline.                           *)
(***************************************************************************)
ConfigError == "RuntimeError: OPENAI_API_KEY not set"
FetchError == "CalledProcessError"
NoMp3Error == "RuntimeError: No MP3 produced."
DecodeError == "CouldntDecodeError"
ChunkErrors == {"ExportError", "APIError"}

TranscribeCalled == Logged("mkdir_chunks")
TranscribeExited == TranscribeCalled /\ pc \in {"write", "done", "fatal"}
ProcessExited == pc \in {"done", "fatal"}
LoopCompleted == pc \in {"return", "write", "done"}

IsChunkEvent(e) ==
    e.ev \in {"export", "export_failed", "submit", "submit_failed"}
ChunkEvents == SelectSeq(log, IsChunkEvent)

\* the number of windows of length w that cover d milliseconds
CeilDiv(d, w) == (d + w - 1) \div w

RECURSIVE SumDurations(_)
SumDurations(cs) ==
    IF cs = <<>> THEN 0
    ELSE (Head(cs).to - Head(cs).from) + SumDurations(Tail(cs))

\* the trimmed answers of the service up to the n-th, one per line
RECURSIVE LinesUpTo(_)
LinesUpTo(n) ==
    IF n = 0 THEN <<>>
    ELSE IF n = 1 THEN Trimmed(responses[1])
    ELSE LinesUpTo(n - 1) \o <<"\n">> \o Trimmed(responses[n])

\* C1 as stated: once transcribe has returned or raised, the scratch
\* directory and everything in it are gone.
C1_ScratchGoneAfterTranscribe ==
    TranscribeExited =>
        (ChunksDir \notin dirs /\ glob_mp3(files, ChunksDir) = {})

\* C2: a run that failed has written no transcript and transcribe has
\* returned no text; a transcript is written only when every chunk of the
\* audio was transcribed and nothing failed.
C2_NoTranscriptOnFailure ==
    /\ error # NoError =>
          (transcripts = {} /\ text = NoText /\ ~Logged("write_transcript"))
    /\ (transcripts # {} \/ text # NoText) =>
          /\ error = NoError
          /\ audio >= 0
          /\ \A k \in 0 .. (CeilDiv(audio, chunk_length_ms) - 1) :
                \E n \in 1 .. Len(log) : log[n] = Event("submit", k)

\* a service failure after a first fragment had been collected
C2_Witness ==
    /\ pc = "fatal"
    /\ error = "APIError"
    /\ Len(full_text) >= 1
    /\ transcripts = {}

\* C3 as stated: at process exit the file download_audio returned is still
\* in the output directory.
C3_Mp3Persists ==
    (ProcessExited /\ mp3_path # NoPath) =>
        \E f \in files :
            f.dir = outDir /\ f.dir = mp3_path.dir /\ f.name = mp3_path.name

\* C4: the text transcribe returns is the trimmed answers of the service,
\* one per chunk, in chunk order, separated by newlines.
C4_FragmentsInChunkOrder ==
    text.bound =>
        /\ Len(responses) = Len(chunks)
        /\ Len(full_text) = Len(chunks)
        /\ \A k \in 1 .. Len(chunks) : full_text[k] = Trimmed(responses[k])
        /\ text.value = LinesUpTo(Len(responses))

\* a finished run with different answers for the first two chunks
C4_Witness ==
    /\ pc = "done"
    /\ Len(responses) >= 2
    /\ Trimmed(responses[1]) # Trimmed(responses[2])
    /\ \E t \in transcripts : t.text = text.value

\* C5: the k-th chunk is the window [k*W, min((k+1)*W, D)) and is not empty;
\* a completed loop has made ceil(D / W) chunks, all of length W except
\* possibly the last, with durations that sum to D.
C5_ChunkPartition ==
    /\ \A k \in 1 .. Len(chunks) :
          /\ chunks[k].from = (k - 1) * 300000
          /\ chunks[k].to = Min(k * 300000, audio)
          /\ chunks[k].to > chunks[k].from
    /\ LoopCompleted =>
          /\ Len(chunks) = CeilDiv(audio, 300000)
          /\ SumDurations(chunks) = audio
          /\ \A k \in 1 .. (Len(chunks) - 1) :
                chunks[k].to - chunks[k].from = 300000
          /\ Len(chunks) > 0 =>
                LET last == chunks[Len(chunks)]
                IN  last.to - last.from \in 1 .. 300000

\* the twelve-minute scenario: 5 min, 5 min, 2 min
C5_Witness ==
    /\ pc = "done"
    /\ audio = 720000
    /\ Len(chunks) = 3
    /\ chunks[3].to - chunks[3].from = 120000

\* C8: download_audio returns only after a zero exit and then the newest
\* .mp3 of the output directory; a non-zero exit raises before the scan; a
\* zero exit and no .mp3 raises "No MP3 produced."; neither failure lets
\* the transcription stage start.
C8_DownloadResult ==
    /\ mp3_path # NoPath => returncode = 0
    /\ pc = "transcribe" =>
          \E f \in glob_mp3(files, outDir) :
              /\ mp3_path = [dir |-> f.dir, name |-> f.name]
              /\ \A g \in glob_mp3(files, outDir) : g.mtime <= f.mtime
    /\ returncode > 0 => error = FetchError
    /\ error = FetchError =>
          /\ returncode > 0
          /\ pc = "fatal"
          /\ ~Logged("scan")
          /\ ~TranscribeCalled
    /\ error = NoMp3Error =>
          /\ returncode = 0
          /\ pc = "fatal"
          /\ Logged("scan")
          /\ glob_mp3(files, outDir) = {}
          /\ ~TranscribeCalled

\* the download returned the newer of two files of the output directory
C8_Witness ==
    /\ pc = "transcribe"
    /\ \E f, g \in glob_mp3(files, outDir) :
          /\ f.mtime > g.mtime
          /\ mp3_path.name = f.name

\* C9: with the credential absent the process ends in the configuration
\* error before any stage has done anything.
C9_NoStageWithoutCredential ==
    (pc # "import" /\ environ = Unset) =>
        /\ pc = "fatal"
        /\ error = ConfigError
        /\ log = <<>>
        /\ url = <<>>
        /\ returncode = -1
        /\ transcripts = {}

\* a run that ended in the configuration error
C9_Witness == pc = "fatal" /\ environ = Unset /\ error = ConfigError

\* C10: the chunks are exported and submitted strictly in turn (export 0,
\* submit 0, export 1, ...), each index once; a failed export or submit is
\* the last chunk event of the run, and the error leaves only after rmtree.
C10_FirstFailureAborts ==
    LET ce == ChunkEvents
    IN  /\ \A n \in 1 .. Len(ce) :
              /\ ce[n].k = (n - 1) \div 2
              /\ n % 2 = 1 => ce[n].ev \in {"export", "export_failed"}
              /\ n % 2 = 0 => ce[n].ev \in {"submit", "submit_failed"}
              /\ ce[n].ev \in {"export_failed", "submit_failed"} =>
                    (n = Len(ce) /\ error \in ChunkErrors)
        /\ error \in ChunkErrors =>
              /\ pc \in {"finally", "fatal"}
              /\ pc = "fatal" => log[Len(log)] = Event("rmtree", 0)

\* the service failed on the second of three chunks and the run is over
C10_Witness ==
    /\ pc = "fatal"
    /\ error = "APIError"
    /\ audio > 2 * 300000
    /\ \E n \in 1 .. Len(log) : log[n] = Event("submit", 0)
    /\ \E n \in 1 .. Len(log) : log[n] = Event("submit_failed", 1)

====
